---- MODULE Spec2Model ----
(***************************************************************************)
(* The two Lambda handlers of infrastructure/lambda-src:                   *)
(*   processor.py       lambda_handler: download a PDF, write the HTML     *)
(*                      artifact <prefix><jobId>/converted.html            *)
(*   status-checker.py  lambda_handler: list <prefix><jobId>/ and classify *)
(* together with the object storage they share and the local temporary     *)
(* files of the processor.                                                 *)
(*                                                                         *)
(* A Python str is a sequence of one-character strings, so that unquote,   *)
(* str.replace, str.endswith and the f-strings are computed character by   *)
(* character.  Exception messages are kept as whole strings.               *)
(***************************************************************************)
EXTENDS Naturals, Sequences, FiniteSets, TLC

VARIABLES storage, tmpFiles, conv, statusResult, storageChanged

vars == <<storage, tmpFiles, conv, statusResult, storageChanged>>

(***************************************************************************)
(* Bounds of the model.                                                    *)
(***************************************************************************)
\* Number of invocations of the processor (each has its own request id).
MaxInvocations == 2

(***************************************************************************)
(* Characters and strings.                                                 *)
(***************************************************************************)
\* The printable ASCII characters, code points 32..126, in code-point order
\* (the grave accent, code 96, is written GRAVE).
Printable ==
  << " ", "!", "\"", "#", "$", "%", "&", "'", "(", ")", "*", "+", ",", "-", ".", "/",
     "0", "1", "2", "3", "4", "5", "6", "7", "8", "9", ":", ";", "<", "=", ">", "?",
     "@", "A", "B", "C", "D", "E", "F", "G", "H", "I", "J", "K", "L", "M", "N", "O",
     "P", "Q", "R", "S", "T", "U", "V", "W", "X", "Y", "Z", "[", "\\", "]", "^", "_",
     "GRAVE", "a", "b", "c", "d", "e", "f", "g", "h", "i", "j", "k", "l", "m", "n", "o",
     "p", "q", "r", "s", "t", "u", "v", "w", "x", "y", "z", "{", "|", "}", "~" >>

\* ord(c) of a printable character.
Ord == [c \in {Printable[i] : i \in DOMAIN Printable} |->
          31 + (CHOOSE i \in DOMAIN Printable : Printable[i] = c)]

\* chr(n); defined on the printable range only, which the modelled keys keep to.
Chr(n) == Printable[n - 31]

\* a < b in code-point order, compared from position i on (S3 returns keys in
\* UTF-8 binary order, which is this order on ASCII keys).
RECURSIVE StrLessFrom(_, _, _)
StrLessFrom(a, b, i) ==
  IF i > Len(a) THEN i <= Len(b)
  ELSE IF i > Len(b) THEN FALSE
  ELSE IF a[i] = b[i] THEN StrLessFrom(a, b, i + 1)
  ELSE Ord[a[i]] < Ord[b[i]]

StrLess(a, b) == StrLessFrom(a, b, 1)

\* s.startswith(p) / the Prefix filter of list_objects_v2
StartsWith(s, p) == Len(p) <= Len(s) /\ SubSeq(s, 1, Len(p)) = p

\* s.endswith(suffix)
EndsWith(s, suffix) ==
  Len(suffix) <= Len(s) /\ SubSeq(s, Len(s) - Len(suffix) + 1, Len(s)) = suffix

\* s.replace(old, new) for a non-empty old: every non-overlapping occurrence,
\* found from the left, is replaced.
RECURSIVE Replace(_, _, _)
Replace(s, old, new) ==
  IF Len(s) < Len(old) THEN s
  ELSE IF SubSeq(s, 1, Len(old)) = old
       THEN new \o Replace(SubSeq(s, Len(old) + 1, Len(s)), old, new)
       ELSE <<s[1]>> \o Replace(Tail(s), old, new)

\* str(n) of a natural number.
RECURSIVE Str(_)
Str(n) == IF n < 10 THEN <<Chr(48 + n)>> ELSE Str(n \div 10) \o <<Chr(48 + (n % 10))>>

\* f"{n:,}": decimal digits with a comma between groups of three.
RECURSIVE FormatThousands(_)
FormatThousands(n) ==
  IF n < 1000 THEN Str(n)
  ELSE LET r == n % 1000
           pad == IF r < 10 THEN <<"0", "0">> ELSE IF r < 100 THEN <<"0">> ELSE <<>>
       IN  FormatThousands(n \div 1000) \o <<",">> \o pad \o Str(r)

HexDigits == {"0", "1", "2", "3", "4", "5", "6", "7", "8", "9",
              "a", "b", "c", "d", "e", "f", "A", "B", "C", "D", "E", "F"}

\* int(c, 16) of one hexadecimal digit.
HexVal(c) ==
  IF Ord[c] <= 57 THEN Ord[c] - 48
  ELSE IF Ord[c] <= 70 THEN Ord[c] - 55
  ELSE Ord[c] - 87

\* urllib.parse.unquote: each "%XY" with two hexadecimal digits becomes the
\* character of that code; a "%" not followed by two hexadecimal digits stays.
RECURSIVE unquote(_)
unquote(s) ==
  IF s = <<>> THEN <<>>
  ELSE IF s[1] = "%" /\ Len(s) >= 3 /\ s[2] \in HexDigits /\ s[3] \in HexDigits
       THEN <<Chr(16 * HexVal(s[2]) + HexVal(s[3]))>> \o unquote(SubSeq(s, 4, Len(s)))
       ELSE <<s[1]>> \o unquote(Tail(s))

(***************************************************************************)
(* String literals of the two handlers.                                    *)
(***************************************************************************)
DefaultOutputPrefix == <<"c", "o", "n", "v", "e", "r", "t", "e", "d", "/">>
UnknownJobId == <<"u", "n", "k", "n", "o", "w", "n">>
JobIdStem == <<"j", "o", "b", "-">>
ConvertedHtml == <<"c", "o", "n", "v", "e", "r", "t", "e", "d", ".", "h", "t", "m", "l">>
HtmlSuffix == <<".", "h", "t", "m", "l">>
S3Scheme == <<"s", "3", ":", "/", "/">>
Slash == <<"/">>

\* event.get(field, default)
EventGet(event, field, default) == IF field \in DOMAIN event THEN event[field] ELSE default

(***************************************************************************)
(* Object storage (the S3 calls the handlers make through boto3).          *)
(* storage[b] is the bucket's objects in ascending key order, one per key. *)
(***************************************************************************)
InBucket == <<"i", "n">>
OutBucket == <<"o", "u", "t">>
Buckets == {InBucket, OutBucket}

\* list_objects_v2 is called without MaxKeys and without a continuation
\* token: the service returns at most this many keys in one response.
MaxKeys == 1000

Min(a, b) == IF a <= b THEN a ELSE b

\* s3_client.list_objects_v2(Bucket=..., Prefix=...): the first MaxKeys
\* objects, in key order, whose key begins with Prefix; the response has no
\* 'Contents' entry when there is none.
list_objects_v2(st, Bucket, Prefix) ==
  LET matching == SelectSeq(st[Bucket], LAMBDA o : StartsWith(o.Key, Prefix))
      n == Min(MaxKeys, Len(matching))
  IN  IF n = 0
      THEN [KeyCount |-> 0, IsTruncated |-> FALSE]
      ELSE [KeyCount |-> n, IsTruncated |-> Len(matching) > n,
            Contents |-> [i \in 1..n |-> [Key |-> matching[i].Key]]]

\* s3_client.put_object(Bucket, Key, Body, ContentType, Metadata): creates the
\* object or replaces the one stored under that key.
put_object(st, Bucket, Key, Body, ContentType, Metadata) ==
  LET objs == st[Bucket]
      obj == [Key |-> Key, Body |-> Body, ContentType |-> ContentType,
              Metadata |-> Metadata]
      at == {i \in DOMAIN objs : objs[i].Key = Key}
      below == Cardinality({i \in DOMAIN objs : StrLess(objs[i].Key, Key)})
  IN  [st EXCEPT ![Bucket] =
         IF at # {}
         THEN [objs EXCEPT ![CHOOSE i \in at : TRUE] = obj]
         ELSE SubSeq(objs, 1, below) \o <<obj>> \o SubSeq(objs, below + 1, Len(objs))]

\* The keys stored in a bucket.
KeysOf(st, Bucket) == {st[Bucket][i].Key : i \in DOMAIN st[Bucket]}

\* The object stored under a key that exists.
ObjectAt(st, Bucket, Key) ==
  st[Bucket][CHOOSE i \in DOMAIN st[Bucket] : st[Bucket][i].Key = Key]

\* str(e) of the errors the storage calls raise.
NotFoundError == "An error occurred (404) when calling the HeadObject operation: Not Found"
DownloadErrors == {"An error occurred (403) when calling the HeadObject operation: Forbidden"}
PutErrors == {"An error occurred (AccessDenied) when calling the PutObject operation: Access Denied"}
ListErrors ==
  {"An error occurred (AccessDenied) when calling the ListObjectsV2 operation: Access Denied",
   "An error occurred (SlowDown) when calling the ListObjectsV2 operation: Please reduce your request rate."}

\* s3_client.download_file(bucket, key, filename): the outcomes the call can
\* have; it cannot succeed when no object is stored under the key.
DownloadOutcomes(st, Bucket, Key) ==
  (IF Key \in KeysOf(st, Bucket)
   THEN {[ok |-> TRUE, size |-> Len(ObjectAt(st, Bucket, Key).Body)]}
   ELSE {[ok |-> FALSE, error |-> NotFoundError]})
  \cup {[ok |-> FALSE, error |-> e] : e \in DownloadErrors}

(***************************************************************************)
(* processor.py                                                            *)
(***************************************************************************)
\* context.aws_request_id of the n-th invocation.
RequestId(n) == <<"r">> \o Str(n)

\* The required fields, in the order lines 14-16 read them.
RequiredFields == <<"inputS3Bucket", "inputS3Key", "outputS3Bucket">>

\* The positions of the required fields the event lacks.
MissingRequired(event) == {i \in DOMAIN RequiredFields : RequiredFields[i] \notin DOMAIN event}

\* str(KeyError(field)), raised by event[field] for the first field missing.
KeyErrorStr(event) ==
  LET first == CHOOSE i \in MissingRequired(event) : \A j \in MissingRequired(event) : i <= j
  IN  "'" \o RequiredFields[first] \o "'"

\* Mutant: the fallback job id of status-checker.py, 'unknown', used here.
processor_job_id_unknown(event, request_id) == EventGet(event, "jobId", UnknownJobId)

\* job_id = event.get('jobId', f"job-{context.aws_request_id}")
processor_job_id(event, request_id) == EventGet(event, "jobId", JobIdStem \o request_id)

\* input_key = unquote(event['inputS3Key'])
input_key(event) == unquote(event["inputS3Key"])

\* output_prefix = event.get('outputS3Prefix', 'converted/')
output_prefix(event) == EventGet(event, "outputS3Prefix", DefaultOutputPrefix)

\* Mutant: the "/" between the job id and the file name is missing.
output_key_noslash(event, request_id) ==
  EventGet(event, "outputS3Prefix", DefaultOutputPrefix)
    \o EventGet(event, "jobId", JobIdStem \o request_id) \o ConvertedHtml

\* Mutant: the job id is left out of the key, so the jobs of a prefix share it.
output_key_shared(event, request_id) ==
  EventGet(event, "outputS3Prefix", DefaultOutputPrefix) \o ConvertedHtml

\* output_key = f"{output_prefix}{job_id}/converted.html"
output_key(event, request_id) ==
  output_prefix(event) \o processor_job_id(event, request_id) \o Slash \o ConvertedHtml

\* output_location = f"s3://{output_bucket}/{output_prefix}{job_id}/"
output_location(event, request_id) ==
  S3Scheme \o event["outputS3Bucket"] \o Slash
    \o output_prefix(event) \o processor_job_id(event, request_id) \o Slash

\* json.dumps(conversion_options, indent=2); the modelled requests carry the
\* empty mapping only.
JsonDumps(options) == CASE options = <<>> -> <<"{", "}">>

\* create_html_content: the template's fixed text in whole pieces, the
\* interpolated values character by character.
create_html_content(job_id, in_key, in_bucket, pdf_size, conversion_options, request_id) ==
  <<"<!DOCTYPE html>...<p><strong>Job ID:</strong> ">> \o job_id
    \o <<"</p><p><strong>Original File:</strong> ">> \o in_key
    \o <<"</p><p><strong>Request ID:</strong> ">> \o request_id
    \o <<"</p>...<li><strong>Source:</strong> s3://">> \o in_bucket \o Slash \o in_key
    \o <<"</li><li><strong>File Size:</strong> ">> \o FormatThousands(pdf_size)
    \o <<" bytes</li><li><strong>Processing Options:</strong> ">>
    \o JsonDumps(conversion_options)
    \o <<"</li>...</html>">>

\* The Metadata argument of put_object.
output_metadata(event, request_id) ==
  ("job-id" :> processor_job_id(event, request_id))
    @@ ("source-bucket" :> event["inputS3Bucket"])
    @@ ("source-key" :> input_key(event))
    @@ ("conversion-timestamp" :> request_id)

\* The storage after the put_object call of lines 39-50 succeeded.
upload_html(st, event, request_id, pdf_size) ==
  put_object(st, event["outputS3Bucket"], output_key(event, request_id),
             create_html_content(processor_job_id(event, request_id), input_key(event),
                                 event["inputS3Bucket"], pdf_size,
                                 EventGet(event, "conversionOptions", <<>>), request_id),
             "text/html", output_metadata(event, request_id))

\* The success response of lines 52-80.
success_response(event, request_id) ==
  [jobId |-> processor_job_id(event, request_id),
   status |-> "COMPLETED",
   outputLocation |-> output_location(event, request_id),
   conversionResult |->
     [html_path |-> S3Scheme \o event["outputS3Bucket"] \o Slash
                      \o output_key(event, request_id),
      output_files |-> <<output_key(event, request_id)>>,
      pdf_pages |-> 1,
      images_extracted |-> 0,
      processing_time_seconds |-> 1],
   inputLocation |-> S3Scheme \o event["inputS3Bucket"] \o Slash \o input_key(event)]

\* The failure response of lines 82-92.
failure_response(event, request_id, error_message) ==
  [jobId |-> processor_job_id(event, request_id),
   status |-> "FAILED",
   error |-> error_message,
   inputLocation |-> S3Scheme \o EventGet(event, "inputS3Bucket", <<>>) \o Slash
                       \o EventGet(event, "inputS3Key", <<>>)]

(***************************************************************************)
(* status-checker.py                                                       *)
(***************************************************************************)
\* job_id = event.get('jobId', 'unknown')
status_job_id(event) == EventGet(event, "jobId", UnknownJobId)

\* job_output_prefix = f"{output_prefix}{job_id}/"
job_output_prefix(event) == output_prefix(event) \o status_job_id(event) \o Slash

\* files_found of lines 28-30.
files_found(response, prefix) ==
  IF "Contents" \in DOMAIN response
  THEN [i \in DOMAIN response.Contents |-> Replace(response.Contents[i].Key, prefix, <<>>)]
  ELSE <<>>

\* html_files = [f for f in files_found if f.endswith('.html')]
html_files(files) == SelectSeq(files, LAMBDA f : EndsWith(f, HtmlSuffix))

\* status of lines 29-43.
status_of(response, prefix) ==
  IF "Contents" \in DOMAIN response
  THEN IF html_files(files_found(response, prefix)) # <<>> THEN "COMPLETED" ELSE "IN_PROGRESS"
  ELSE "IN_PROGRESS"

\* context.aws_request_id of an invocation of the status handler.
StatusRequestIds == {<<"s", "1">>, <<"s", "2">>}

\* Mutant: the status handler takes the processor's default job id (line 13
\* of processor.py), which is generated from the invocation's request id.
status_lambda_handler_request_scoped(event, context, outcome) ==
  LET job_id == IF "jobId" \in DOMAIN event THEN event["jobId"] ELSE JobIdStem \o context
  IN  IF "outputS3Bucket" \notin DOMAIN event
      THEN [kind |-> "raise", exception |-> "UnboundLocalError"]
      ELSE IF outcome.ok
      THEN [kind |-> "return",
            value |-> [jobId |-> job_id,
                       status |-> status_of(outcome.response, job_output_prefix(event)),
                       outputLocation |-> S3Scheme \o event["outputS3Bucket"] \o Slash
                                            \o job_output_prefix(event),
                       filesFound |-> files_found(outcome.response, job_output_prefix(event))]]
      ELSE [kind |-> "return",
            value |-> [jobId |-> job_id,
                       status |-> "FAILED",
                       error |-> outcome.error,
                       outputLocation |-> S3Scheme \o event["outputS3Bucket"] \o Slash
                                            \o output_prefix(event) \o job_id \o Slash]]

\* lambda_handler(event, context): what an invocation of the status handler
\* ends with, given the outcome of its list_objects_v2 call.  The body never
\* reads context.  Without 'outputS3Bucket' line 11 raises KeyError before any
\* call; the except block then reads output_bucket (line 62), which was never
\* bound, and the UnboundLocalError leaves the handler.
status_lambda_handler(event, context, outcome) ==
  IF "outputS3Bucket" \notin DOMAIN event
  THEN [kind |-> "raise", exception |-> "UnboundLocalError"]
  ELSE IF outcome.ok
  THEN [kind |-> "return",
        value |-> [jobId |-> status_job_id(event),
                   status |-> status_of(outcome.response, job_output_prefix(event)),
                   outputLocation |-> S3Scheme \o event["outputS3Bucket"] \o Slash
                                        \o job_output_prefix(event),
                   filesFound |-> files_found(outcome.response, job_output_prefix(event))]]
  ELSE [kind |-> "return",
        value |-> [jobId |-> status_job_id(event),
                   status |-> "FAILED",
                   error |-> outcome.error,
                   outputLocation |-> S3Scheme \o event["outputS3Bucket"] \o Slash
                                        \o output_prefix(event) \o status_job_id(event)
                                        \o Slash]]

\* The outcomes the list_objects_v2 call of lines 23-26 can have.
ListOutcomes(st, event) ==
  {[ok |-> TRUE,
    response |-> list_objects_v2(st, event["outputS3Bucket"], job_output_prefix(event))]}
  \cup {[ok |-> FALSE, error |-> e] : e \in ListErrors}

(***************************************************************************)
(* The requests and the initial bucket contents the model draws from.      *)
(***************************************************************************)
J1 == <<"j", "1">>
PPrefix == <<"p", "/">>
\* Another prefix and job id whose concatenation is also "p/j1".
SplitPrefix == <<"p", "/", "j">>
SplitJob == <<"1">>
\* "a%20b.pdf" names the stored object "a b.pdf"; no object is stored as "c.pdf".
EncodedKey == <<"a", "%", "2", "0", "b", ".", "p", "d", "f">>
PlainKey == <<"c", ".", "p", "d", "f">>

Restrict(f, D) == [x \in D \cap DOMAIN f |-> f[x]]

\* Requests to the processor.  The complete ones for the stored object: with
\* the job "p/" + "j1", with the job "p/j" + "1", and with neither jobId nor
\* outputS3Prefix.
CompleteConvEvents ==
  {Restrict([jobId |-> J1, inputS3Bucket |-> InBucket, inputS3Key |-> EncodedKey,
             outputS3Bucket |-> OutBucket, outputS3Prefix |-> PPrefix],
            {"inputS3Bucket", "inputS3Key", "outputS3Bucket"} \cup D) :
     D \in {{"jobId", "outputS3Prefix"}, {}}}
  \cup {[jobId |-> SplitJob, inputS3Bucket |-> InBucket, inputS3Key |-> EncodedKey,
         outputS3Bucket |-> OutBucket, outputS3Prefix |-> SplitPrefix]}

\* The complete one for an object that is not stored.
MissingObjectEvents ==
  {[jobId |-> J1, inputS3Bucket |-> InBucket, inputS3Key |-> PlainKey,
    outputS3Bucket |-> OutBucket, outputS3Prefix |-> PPrefix]}

\* Those lacking some of the required fields.

IncompleteConvEvents ==
  {Restrict([jobId |-> J1, inputS3Bucket |-> InBucket, inputS3Key |-> EncodedKey,
             outputS3Bucket |-> OutBucket], D) :
     D \in (SUBSET {"jobId", "inputS3Bucket", "inputS3Key", "outputS3Bucket"})
             \ {D2 \in SUBSET {"jobId", "inputS3Bucket", "inputS3Key", "outputS3Bucket"} :
                  {"inputS3Bucket", "inputS3Key", "outputS3Bucket"} \subseteq D2}}

ConvEvents == CompleteConvEvents \cup MissingObjectEvents \cup IncompleteConvEvents

\* Requests to the status handler.
StatusEvents ==
  {Restrict([jobId |-> J1, outputS3Bucket |-> OutBucket, outputS3Prefix |-> PPrefix], D) :
     D \in {{"jobId", "outputS3Prefix"}, {"outputS3Bucket"},
            {"outputS3Bucket", "jobId"}, {"outputS3Bucket", "jobId", "outputS3Prefix"}}}

\* An object that was stored by something other than the processor.
ForeignObject(key, body) ==
  [Key |-> key, Body |-> body, ContentType |-> "binary/octet-stream", Metadata |-> <<>>]

PdfBody == <<"%", "P", "D", "F">>

InputObjects == <<ForeignObject(<<"a", " ", "b", ".", "p", "d", "f">>, PdfBody)>>

\* Keys that are not outputs of the processor: two under the prefix "p/j1/",
\* one under "converted/j1/" that does not end in ".html" but ends with the
\* job prefix.
LogKey == PPrefix \o J1 \o Slash \o <<"l", "o", "g", ".", "t", "x", "t">>
NestedKey == PPrefix \o J1 \o Slash \o PPrefix \o J1 \o Slash \o <<"a", ".", "t", "x", "t">>
TrailingKey ==
  DefaultOutputPrefix \o J1 \o Slash \o <<"x">> \o HtmlSuffix \o DefaultOutputPrefix \o J1 \o Slash

\* Each bucket holds its objects in ascending key order.
InitialStorage ==
  [b \in Buckets |->
     IF b = InBucket THEN InputObjects
     ELSE <<ForeignObject(TrailingKey, <<>>), ForeignObject(LogKey, <<>>),
            ForeignObject(NestedKey, <<>>)>>]

\* str(n) padded with zeros on the left to the given width.
RECURSIVE ZeroPad(_, _)
ZeroPad(n, width) == IF width = 0 THEN <<>> ELSE ZeroPad(n \div 10, width - 1) \o <<Chr(48 + (n % 10))>>

\* A job prefix that already holds MaxKeys objects, none of them HTML, all of
\* them before "converted.html" in key order: "p/j1/0001.png", ...
PagedStorage ==
  [b \in Buckets |->
     IF b = InBucket THEN InputObjects
     ELSE [i \in 1..MaxKeys |->
             ForeignObject(PPrefix \o J1 \o Slash \o ZeroPad(i, 4) \o <<".", "p", "n", "g">>,
                           <<>>)]]

(***************************************************************************)
(* State.                                                                  *)
(*   storage         the buckets                                           *)
(*   tmpFiles        the processor's temporary files that exist, each      *)
(*                   named by the invocation that created it               *)
(*   conv[i]         the i-th invocation of the processor: where it is,    *)
(*                   its event, the storage calls it made, what it returned*)
(*   statusResult    the latest invocation of the status handler: its      *)
(*                   event, how its listing call ended, what it ended with,*)
(*                   and whether it repeats the invocation before it       *)
(*   storageChanged  whether an object was written since that invocation   *)
(***************************************************************************)
Invocations == 1..MaxInvocations

Idle == [pc |-> "idle"]

InitRest ==
  /\ tmpFiles = {}
  /\ conv = [i \in Invocations |-> Idle]
  /\ statusResult = [called |-> FALSE]
  /\ storageChanged = FALSE

Init == storage = InitialStorage /\ InitRest

InitPaged == storage = PagedStorage /\ InitRest

(***************************************************************************)
(* processor.py lambda_handler, one action per storage call.               *)
(***************************************************************************)
\* Lines 11-26: the fields are read; a missing required field raises KeyError,
\* which the except block of lines 82-92 turns into the failure response.
\* Otherwise the temporary file is created (delete=False).
ConvStart(i, event) ==
  /\ conv[i].pc = "idle"
  /\ IF i = 1 THEN TRUE ELSE conv[i - 1].pc # "idle"
  /\ IF MissingRequired(event) # {}
     THEN /\ conv' = [conv EXCEPT ![i] =
                        [pc |-> "returned", event |-> event, calls |-> <<>>,
                         result |-> failure_response(event, RequestId(i), KeyErrorStr(event))]]
          /\ tmpFiles' = tmpFiles
     ELSE /\ conv' = [conv EXCEPT ![i] = [pc |-> "staged", event |-> event, calls |-> <<>>]]
          /\ tmpFiles' = tmpFiles \cup {i}
  /\ UNCHANGED <<storage, statusResult, storageChanged>>

\* Lines 27-32: download_file into the temporary file; a failure is raised
\* again as Exception("Failed to download PDF: ...") and reaches the except
\* block of lines 82-92, which returns without removing the file.
ConvDownload(i) ==
  /\ conv[i].pc = "staged"
  /\ LET event == conv[i].event
         call == [op |-> "download_file", Bucket |-> event["inputS3Bucket"],
                  Key |-> input_key(event)]
     IN  \E outcome \in DownloadOutcomes(storage, call.Bucket, call.Key) :
           conv' = [conv EXCEPT ![i] =
                      IF outcome.ok
                      THEN [pc |-> "downloaded", event |-> event,
                            calls |-> <<call @@ [ok |-> TRUE]>>, pdf_size |-> outcome.size]
                      ELSE [pc |-> "returned", event |-> event,
                            calls |-> <<call @@ [ok |-> FALSE]>>,
                            result |-> failure_response(event, RequestId(i),
                                         "Failed to download PDF: " \o outcome.error)]]
  /\ UNCHANGED <<storage, tmpFiles, statusResult, storageChanged>>

\* Lines 34-80: put_object succeeds, the temporary file is unlinked and the
\* success response returned.  Nothing after put_object reaches storage, so
\* the call and the return are one step.  The unlink is of a file this
\* invocation created and nothing else removes; lines 67-68 would swallow
\* its failure.
ConvUploadOk(i) ==
  /\ conv[i].pc = "downloaded"
  /\ LET event == conv[i].event
         call == [op |-> "put_object", Bucket |-> event["outputS3Bucket"],
                  Key |-> output_key(event, RequestId(i)), ok |-> TRUE]
     IN  /\ storage' = upload_html(storage, event, RequestId(i), conv[i].pdf_size)
         /\ conv' = [conv EXCEPT ![i] =
                       [pc |-> "returned", event |-> event,
                        calls |-> Append(conv[i].calls, call),
                        result |-> success_response(event, RequestId(i))]]
  /\ tmpFiles' = tmpFiles \ {i}
  /\ storageChanged' = TRUE
  /\ UNCHANGED statusResult

\* Lines 39-50 raise: the except block of lines 82-92 returns the failure
\* response; lines 64-68 are not reached.
ConvUploadFail(i) ==
  /\ conv[i].pc = "downloaded"
  /\ LET event == conv[i].event
         call == [op |-> "put_object", Bucket |-> event["outputS3Bucket"],
                  Key |-> output_key(event, RequestId(i)), ok |-> FALSE]
     IN  \E e \in PutErrors :
           conv' = [conv EXCEPT ![i] =
                      [pc |-> "returned", event |-> event,
                       calls |-> Append(conv[i].calls, call),
                       result |-> failure_response(event, RequestId(i), e)]]
  /\ UNCHANGED <<storage, tmpFiles, statusResult, storageChanged>>

(***************************************************************************)
(* status-checker.py lambda_handler: one invocation, with its single       *)
(* storage call.                                                           *)
(***************************************************************************)
NoCall == [ok |-> FALSE, error |-> ""]

\* How the listing call of an invocation ended: "ok", or str(e) of the error
\* it raised ("" when the handler made no call).
Listing(outcome) == IF outcome.ok THEN "ok" ELSE outcome.error

\* The invocation about to run repeats the latest one: the same request, no
\* object written between them, the listing call ending the same way.
Repeats(event, outcome) ==
  /\ statusResult.called
  /\ statusResult.event = event
  /\ ~storageChanged
  /\ statusResult.listing = Listing(outcome)

StatusHandler(event) ==
  /\ \E outcome \in (IF "outputS3Bucket" \in DOMAIN event
                     THEN ListOutcomes(storage, event) ELSE {NoCall}) :
       \E context \in StatusRequestIds :
         statusResult' = [called |-> TRUE, event |-> event,
                          listed |-> outcome.ok,
                          listing |-> Listing(outcome),
                          repeats |-> Repeats(event, outcome),
                          result |-> status_lambda_handler(event, context, outcome)]
  /\ storageChanged' = FALSE
  /\ UNCHANGED <<storage, tmpFiles, conv>>

Next ==
  \/ \E i \in Invocations, event \in ConvEvents : ConvStart(i, event)
  \/ \E i \in Invocations : ConvDownload(i)
  \/ \E i \in Invocations : ConvUploadOk(i)
  \/ \E i \in Invocations : ConvUploadFail(i)
  \/ \E event \in StatusEvents : StatusHandler(event)

Spec == Init /\ [][Next]_vars

\* The two handlers driven by the complete requests for the stored object:
\* the requests that reach put_object.
NextComplete ==
  \/ \E i \in Invocations, event \in CompleteConvEvents : ConvStart(i, event)
  \/ \E i \in Invocations : ConvDownload(i)
  \/ \E i \in Invocations : ConvUploadOk(i)
  \/ \E i \in Invocations : ConvUploadFail(i)
  \/ \E event \in StatusEvents : StatusHandler(event)

SpecComplete == Init /\ [][NextComplete]_vars

\* The two handlers on a bucket whose job prefix "p/j1/" is already full,
\* driven by the request that names that prefix and job.
PagedConvEvents ==
  {event \in CompleteConvEvents :
     output_prefix(event) = PPrefix /\ processor_job_id(event, <<>>) = J1}

NextPaged ==
  \/ \E i \in Invocations, event \in PagedConvEvents : ConvStart(i, event)
  \/ \E i \in Invocations : ConvDownload(i)
  \/ \E i \in Invocations : ConvUploadOk(i)
  \/ \E i \in Invocations : ConvUploadFail(i)
  \/ \E event \in StatusEvents : StatusHandler(event)

SpecPaged == InitPaged /\ [][NextPaged]_vars

\* The processor alone, on every request.  No status invocation changes or
\* reads conv, storage or tmpFiles.
NextProcessor ==
  \/ \E i \in Invocations, event \in ConvEvents : ConvStart(i, event)
  \/ \E i \in Invocations : ConvDownload(i)
  \/ \E i \in Invocations : ConvUploadOk(i)
  \/ \E i \in Invocations : ConvUploadFail(i)

SpecProcessor == Init /\ [][NextProcessor]_vars

(***************************************************************************)
(* The properties.                                                         *)
(***************************************************************************)
Returned(i) == conv[i].pc = "returned"

\* The latest status invocation listed the bucket and nothing was written
\* since: storage is what that invocation saw.
StatusFresh == statusResult.called /\ statusResult.listed /\ ~storageChanged

\* What the request names: bucket B, prefix P, job J.
RequestPrefix(event) ==
  IF "outputS3Prefix" \in DOMAIN event THEN event["outputS3Prefix"] ELSE DefaultOutputPrefix

\* The job id of the i-th processor invocation: the supplied one, else the
\* one generated from the request id.
RequestJob(i) ==
  IF "jobId" \in DOMAIN conv[i].event THEN conv[i].event["jobId"] ELSE JobIdStem \o RequestId(i)

\* P + J + "/" of the i-th processor invocation.
JobPrefixOf(i) == RequestPrefix(conv[i].event) \o RequestJob(i) \o Slash

\* P + J + "/" of the latest status request.
StatusJobPrefix ==
  RequestPrefix(statusResult.event)
    \o (IF "jobId" \in DOMAIN statusResult.event THEN statusResult.event["jobId"]
        ELSE UnknownJobId) \o Slash

\* The i-th processor invocation returned COMPLETED.
Completed(i) == Returned(i) /\ conv[i].result.status = "COMPLETED"

\* An object the processor wrote.
IsArtifact(obj) == "job-id" \in DOMAIN obj.Metadata

\* C1: whenever a status invocation fails (the request lacks outputS3Bucket,
\* or the listing call fails), it returns a result with status FAILED, the
\* error message, jobId and outputLocation and no filesFound; it raises nothing.
C1_StatusFailureIsStructured ==
  (statusResult.called
     /\ ("outputS3Bucket" \notin DOMAIN statusResult.event \/ ~statusResult.listed))
  => /\ statusResult.result.kind = "return"
     /\ statusResult.result.value.status = "FAILED"
     /\ DOMAIN statusResult.result.value = {"jobId", "status", "error", "outputLocation"}

\* C2: a processor invocation whose request lacks some required field returns
\* FAILED with a non-empty error, the supplied or generated jobId and the
\* inputLocation built from the fields present; it made no storage call.
C2_MissingFieldFailsCleanly ==
  \A i \in Invocations :
    (Returned(i) /\ MissingRequired(conv[i].event) # {})
    => LET event == conv[i].event
           r == conv[i].result
       IN  /\ r.status = "FAILED"
           /\ Len(r.error) > 0
           /\ r.jobId = RequestJob(i)
           /\ r.inputLocation =
                S3Scheme
                  \o (IF "inputS3Bucket" \in DOMAIN event THEN event["inputS3Bucket"] ELSE <<>>)
                  \o Slash
                  \o (IF "inputS3Key" \in DOMAIN event THEN event["inputS3Key"] ELSE <<>>)
           /\ DOMAIN r = {"jobId", "status", "error", "inputLocation"}
           /\ conv[i].calls = <<>>

\* C2 witness: a request with neither jobId nor inputS3Bucket, but with
\* inputS3Key, was answered.
C2_Witness ==
  \E i \in Invocations :
    /\ Returned(i)
    /\ "jobId" \notin DOMAIN conv[i].event
    /\ "inputS3Bucket" \notin DOMAIN conv[i].event
    /\ "inputS3Key" \in DOMAIN conv[i].event

\* C3: once a processor invocation has returned, the temporary file it
\* created no longer exists.
C3_TempFileRemovedOnReturn == \A i \in Invocations : Returned(i) => i \notin tmpFiles

\* C4: when the listing succeeds, the status is COMPLETED if and only if some
\* object of the bucket under the job prefix has a key ending in ".html", and
\* IN_PROGRESS otherwise.
C4_StatusClassification ==
  StatusFresh
  => LET B == statusResult.event["outputS3Bucket"]
         html == \E k \in KeysOf(storage, B) :
                   StartsWith(k, StatusJobPrefix) /\ EndsWith(k, HtmlSuffix)
     IN  statusResult.result.value.status = (IF html THEN "COMPLETED" ELSE "IN_PROGRESS")

\* C5: a processor invocation returns COMPLETED exactly when its download and
\* its upload both succeeded; then the object P+J+"/converted.html" is in the
\* bucket, outputLocation is s3://B/P+J/ and output_files is that one key.
C5_CompletedMeansUploaded ==
  \A i \in Invocations :
    Returned(i)
    => LET r == conv[i].result
           calls == conv[i].calls
           B == conv[i].event["outputS3Bucket"]
           key == JobPrefixOf(i) \o ConvertedHtml
       IN  /\ r.status = "COMPLETED"
                <=> /\ Len(calls) = 2
                    /\ calls[1].op = "download_file" /\ calls[1].ok
                    /\ calls[2].op = "put_object" /\ calls[2].ok
           /\ r.status = "COMPLETED"
                => /\ key \in KeysOf(storage, B)
                   /\ r.outputLocation = S3Scheme \o B \o Slash \o JobPrefixOf(i)
                   /\ r.conversionResult.output_files = <<key>>

\* C5 witness: an invocation without a supplied jobId returned COMPLETED.
C5_Witness == \E i \in Invocations : Completed(i) /\ "jobId" \notin DOMAIN conv[i].event

\* C6: for a request with a percent-encoded inputS3Key, storage is queried
\* with the decoded key and the returned inputLocation, whatever the status,
\* is s3://<inputS3Bucket>/<decoded key>.
C6_InputLocationDecoded ==
  \A i \in Invocations :
    (/\ Returned(i)
     /\ {"inputS3Bucket", "inputS3Key"} \subseteq DOMAIN conv[i].event
     /\ unquote(conv[i].event["inputS3Key"]) # conv[i].event["inputS3Key"])
    => /\ conv[i].result.inputLocation =
            S3Scheme \o conv[i].event["inputS3Bucket"] \o Slash
              \o unquote(conv[i].event["inputS3Key"])
       /\ \A c \in DOMAIN conv[i].calls :
            conv[i].calls[c].op = "download_file"
            => conv[i].calls[c].Key = unquote(conv[i].event["inputS3Key"])

\* C7: when the listing succeeds, filesFound has one entry per listed object,
\* in listing order, and the job prefix followed by the i-th entry is the
\* i-th listed key.
C7_FilesFoundAreRelativeKeys ==
  StatusFresh
  => LET response == list_objects_v2(storage, statusResult.event["outputS3Bucket"],
                                     StatusJobPrefix)
         listed == IF "Contents" \in DOMAIN response THEN response.Contents ELSE <<>>
         files == statusResult.result.value.filesFound
     IN  /\ Len(files) = Len(listed)
         /\ \A n \in DOMAIN listed : StatusJobPrefix \o files[n] = listed[n].Key

\* C8 as stated: an output object, once written, is in every later state the
\* same object (same content and metadata), and is never deleted.
C8_OutputArtifactWriteOnce ==
  [][\A b \in Buckets : \A k \in KeysOf(storage, b) :
       IsArtifact(ObjectAt(storage, b, k))
       => k \in KeysOf(storage', b) /\ ObjectAt(storage', b, k) = ObjectAt(storage, b, k)]_vars

\* C8 amended: an output object is never deleted, and a step changes it only
\* if that step is the successful upload of a processor invocation for the
\* same bucket whose outputS3Prefix followed by its jobId and
\* "/converted.html" is the object's key, whichever prefix and jobId spell
\* that key; the upload leaves the object carrying that invocation's request
\* id.
C8_OutputArtifactOnlyOverwritten ==
  [][\A b \in Buckets : \A k \in KeysOf(storage, b) :
       IsArtifact(ObjectAt(storage, b, k))
       => /\ k \in KeysOf(storage', b)
          /\ ObjectAt(storage', b, k) # ObjectAt(storage, b, k)
             => \E i \in Invocations :
                  /\ conv[i].pc = "downloaded" /\ Completed(i)'
                  /\ conv[i].event["outputS3Bucket"] = b
                  /\ JobPrefixOf(i) \o ConvertedHtml = k
                  /\ ObjectAt(storage', b, k).Metadata["conversion-timestamp"] = RequestId(i)
                  /\ IsArtifact(ObjectAt(storage', b, k))]_vars

\* C8 witness: the output object of one job was written again by an
\* invocation for another prefix and another jobId: both returned COMPLETED
\* for the same bucket and the same key, and the object carries the request
\* id of the later one.
C8_Witness ==
  \E i, j \in Invocations :
    /\ i < j /\ Completed(i) /\ Completed(j)
    /\ conv[i].event["outputS3Bucket"] = conv[j].event["outputS3Bucket"]
    /\ JobPrefixOf(i) = JobPrefixOf(j)
    /\ RequestJob(i) # RequestJob(j)
    /\ RequestPrefix(conv[i].event) # RequestPrefix(conv[j].event)
    /\ conv[i].result.conversionResult.output_files
         = conv[j].result.conversionResult.output_files
    /\ ObjectAt(storage, conv[i].event["outputS3Bucket"],
                JobPrefixOf(i) \o ConvertedHtml).Metadata["conversion-timestamp"]
         = RequestId(j)

\* A step is an invocation of the status handler for the event: the steps
\* of the processor change conv.
StatusStep(event) ==
  /\ conv' = conv
  /\ statusResult'.called
  /\ statusResult'.event = event

\* C9 as stated: an invocation of the status handler leaves storage as it
\* was, and returns what the previous invocation returned when the request is
\* the same and nothing was written between.
C9_StatusReadOnlyIdempotent ==
  [][\A event \in StatusEvents :
       StatusStep(event)
       => /\ storage' = storage
          /\ (statusResult.called /\ ~storageChanged /\ statusResult.event = event)
             => statusResult'.result = statusResult.result]_vars

\* C9 amended: an invocation of the status handler leaves storage as it was,
\* and ends as the previous invocation ended (the same return value, or the
\* same exception) when the request is the same, nothing was written between
\* and the listing calls of the two ended the same way: both succeeded, both
\* raised the same error, or neither was made.
C9_StatusReadOnlyRepeatable ==
  [][\A event \in StatusEvents :
       StatusStep(event)
       => /\ storage' = storage
          /\ (/\ statusResult.called
              /\ ~storageChanged
              /\ statusResult.event = event
              /\ statusResult.listing = statusResult'.listing)
             => statusResult'.result = statusResult.result]_vars

\* C9 witness: the latest status invocation repeated the one before it (the
\* same request, nothing written between, both listings succeeded) after a
\* conversion had written the job's output, and found that output.
C9_Witness ==
  /\ statusResult.called
  /\ statusResult.repeats
  /\ statusResult.listing = "ok"
  /\ ~storageChanged
  /\ statusResult.result.value.filesFound # <<>>
  /\ \E i \in Invocations : Completed(i) /\ JobPrefixOf(i) = StatusJobPrefix

\* C10: a status invocation whose listing succeeds, made after a processor
\* invocation for the same bucket, prefix and jobId returned COMPLETED,
\* returns COMPLETED with "converted.html" among filesFound.
C10_CompletionIsStable ==
  StatusFresh
  => \A i \in Invocations :
       (/\ Completed(i)
        /\ conv[i].event["outputS3Bucket"] = statusResult.event["outputS3Bucket"]
        /\ JobPrefixOf(i) = StatusJobPrefix)
       => /\ statusResult.result.value.status = "COMPLETED"
          /\ \E n \in DOMAIN statusResult.result.value.filesFound :
               statusResult.result.value.filesFound[n] = ConvertedHtml

====
